---- MODULE Spec2Model ----
(***************************************************************************)
(* Model of botfront/imports/api/slots/slots.methods.js: the Meteor        *)
(* methods of the slot manager and of the template manager, run by callers *)
(* whose store calls interleave, against the Slots and Projects            *)
(* collections.                                                            *)
(***************************************************************************)
EXTENDS Integers, Sequences, FiniteSets, TLC

VARIABLES
    Projects,   \* the Projects collection: _id -> [templates, responsesUpdatedAt]
    Slots,      \* the Slots collection: a set of slot documents
    now,        \* the clock Date.now() reads
    frames,     \* per caller: the method call in flight (position and locals)
    last        \* the frame of the call that returned last, with its outcome

vars == <<Projects, Slots, now, frames, last>>

(***************************************************************************)
(* Bounds of the model.                                                    *)
(***************************************************************************)
MaxTemplates == 2   \* templates of one project
MaxValues == 2      \* localized values per template
MaxClock == 1       \* readings of the clock

Callers == {"c1", "c2"}
ProjectIds == {"P", "Q"}
CalledKeys == {"utter_greet"}   \* the keys project.* calls name
Langs == {"en", "fr"}

(***************************************************************************)
(* Templates: {key, values: [{lang, sequence: [{content}]}]}.              *)
(***************************************************************************)
safeDump(key) == "text: " \o key \o "\n"

LocalizedValue(lang, content) ==
    [lang |-> lang, sequence |-> <<[content |-> content]>>]

\* The bug of storing the key itself, not its YAML dump.
newSeqUndumped(key, lang) == LocalizedValue(lang, key)

\* const newSeq = { sequence: [{ content: safeDump({ text: key }) }], lang };
newSeq(key, lang) == LocalizedValue(lang, safeDump(key))

RawText == "text: hi\nyou\n"
FormattedText == "text: hi  \nyou\n"

\* response.utils formatNewlines: every fragment's text gets its newlines
\* normalised ("  \n" collapsed to "\n", then "\n" written as "  \n").
formatContent(content) ==
    IF content \in {RawText, FormattedText} THEN FormattedText ELSE content

formatNewlines(sequence) ==
    [i \in DOMAIN sequence |-> [content |-> formatContent(sequence[i].content)]]

ItemGreet == [key |-> "utter_greet", values |-> <<LocalizedValue("en", RawText)>>]
ItemBye == [key |-> "utter_bye", values |-> <<LocalizedValue("fr", "text: salut\n")>>]
Items == {ItemGreet, ItemBye}

(***************************************************************************)
(* Helpers over a templates list.                                          *)
(***************************************************************************)
KeysOf(ts) == {ts[i].key : i \in DOMAIN ts}
LangsOf(t) == {t.values[i].lang : i \in DOMAIN t.values}

\* The element a query on 'templates.key' / $elemMatch: {key} selects: the
\* first template of the list with that key (0: none).
FirstIndex(ts, key) ==
    IF key \in KeysOf(ts)
    THEN CHOOSE i \in DOMAIN ts :
            ts[i].key = key /\ \A j \in 1..(i - 1) : ts[j].key # key
    ELSE 0

\* The bug of looking at the first localized value only.
HasLangFirst(t, lang) == t.values # <<>> /\ t.values[1].lang = lang

\* values.some(v => v.lang === lang)
HasLang(t, lang) == \E i \in DOMAIN t.values : t.values[i].lang = lang

\* $pull: { templates: { key: { $in: keys } } }
PullKeys(ts, keys) == SelectSeq(ts, LAMBDA t : t.key \notin keys)

SeqToSet(s) == {s[i] : i \in DOMAIN s}

RECURSIVE uniqKeys(_, _)
uniqKeys(ts, seen) ==
    IF ts = <<>> THEN <<>>
    ELSE IF Head(ts).key \in seen THEN uniqKeys(Tail(ts), seen)
    ELSE <<Head(ts).key>> \o uniqKeys(Tail(ts), seen \cup {Head(ts).key})

\* The bug of taking the old keys the incoming list lacks (differenceBy).
differenceByKey(oldTemplates, newTemplates) ==
    uniqKeys(SelectSeq(oldTemplates, LAMBDA t : t.key \notin KeysOf(newTemplates)), {})

\* lodash intersectionBy(oldTemplates, newTemplates, 'key').map(({ key }) => key):
\* the keys of the first list that the second list holds too, each once, in the
\* first list's order.
intersectionByKey(oldTemplates, newTemplates) ==
    uniqKeys(SelectSeq(oldTemplates, LAMBDA t : t.key \in KeysOf(newTemplates)), {})

(***************************************************************************)
(* Frames.                                                                 *)
(***************************************************************************)
Idle ==
    [pc |-> "idle", method |-> "", can |-> TRUE, projectId |-> "", key |-> "",
     lang |-> "", item |-> <<>>, argType |-> "", text |-> "", keys |-> <<>>,
     slot |-> <<>>,
     template |-> <<>>, newTemplates |-> <<>>,
     pullTemplatesKey |-> <<>>,
     calls |-> <<>>, storeError |-> "", error |-> "", result |-> <<>>]

Call(method, projectId, can) ==
    [Idle EXCEPT !.pc = "called", !.method = method, !.projectId = projectId,
                 !.can = can]

\* The call of frame f returns: error "" and a result, or an error. last holds
\* what the step just taken handed back to its caller (Idle: nothing).
Return(c, f, error, result) ==
    /\ last' = [f EXCEPT !.pc = "returned", !.error = error, !.result = result,
                         !.template = <<>>]
    /\ frames' = [frames EXCEPT ![c] = Idle]

\* The call of frame f goes on to its next store call.
Continue(c, f, pc) ==
    /\ frames' = [frames EXCEPT ![c] = [f EXCEPT !.pc = pc]]
    /\ last' = Idle

\* lib/scopes checkIfCan(scope, projectId): "" when the caller holds the scope on
\* the project (can), else the error it throws.
checkIfCan(can) == IF can THEN "" ELSE "403"

Logged(f, op) == [f EXCEPT !.calls = Append(@, op)]

SetTemplates(projectId, ts) ==
    Projects' = [Projects EXCEPT ![projectId] =
                    [templates |-> ts, responsesUpdatedAt |-> now]]

Init ==
    /\ Projects = [p \in ProjectIds |->
                      [templates |-> IF p = "Q" THEN <<ItemGreet, ItemBye>> ELSE <<>>,
                       responsesUpdatedAt |-> 0]]
    /\ Slots = {}
    /\ now = 0
    /\ frames = [c \in Callers |-> Idle]
    /\ last = Idle

\* Time passes.
Tick ==
    /\ now < MaxClock
    /\ now' = now + 1
    /\ last' = Idle
    /\ UNCHANGED <<Projects, Slots, frames>>

(***************************************************************************)
(* The slot manager.  A slot is {_id, name, type, projectId}; Absent marks *)
(* a field the object does not have.                                       *)
(***************************************************************************)
Absent == "<absent>"
SlotIds == {"s1", "s2", "s3"}
SlotNames == {"city", "age"}
SlotInputs ==
    [_id : SlotIds \cup {Absent}, name : SlotNames \cup {Absent},
     type : {"text", "bool", "bogus", Absent}, projectId : {"P"}]

\* slots.schema slotSchemas: one schema per slot type; a schema accepts a slot
\* that has the fields it requires.
slotSchemas ==
    [t \in {"text", "bool"} |-> [s \in SlotInputs |-> s.name # Absent]]

\* The bug of letting a slot without a type through.
validateSchemaTypeOptional(slot) ==
    IF slot.type = Absent THEN ""
    ELSE IF slot.type \notin DOMAIN slotSchemas THEN "TypeError"
    ELSE IF slotSchemas[slot.type][slot] THEN "" ELSE "ValidationError"

\* validateSchema(slot): "" when it returns, else what it throws.
validateSchema(slot) ==
    IF slot.type # Absent
    THEN IF slot.type \notin DOMAIN slotSchemas THEN "TypeError"
         ELSE IF slotSchemas[slot.type][slot] THEN "" ELSE "ValidationError"
    ELSE "400"

\* The bug of testing for another error code.
handleErrorOtherCode(e) ==
    IF e.code = 11001 THEN "400:Slot already exists" ELSE "500:Server Error"

\* handleError(e): what it throws for the store's exception e.
handleError(e) ==
    IF e.code = 11000 THEN "400:Slot already exists" ELSE "500:Server Error"

\* The Slots collection's unique keys: _id, and the index on (projectId, name).
SameKey(d, slot) == d.projectId = slot.projectId /\ d.name = slot.name
Duplicates(docs, doc) ==
    \E d \in docs : d._id = doc._id \/ SameKey(d, doc)

\* What a store call does: [ok, e (the exception thrown), docs (the collection
\* afterwards), value (what it returns)].
StoreThrows(code) == [ok |-> FALSE, e |-> [code |-> code], docs |-> Slots, value |-> <<>>]
StoreReturns(docs, value) == [ok |-> TRUE, e |-> [code |-> 0], docs |-> docs, value |-> value]

\* Slots.insert(slot); id is the _id the store generates when the slot has none.
SlotsCollectionInsert(slot, id, fault) ==
    LET doc == IF slot._id = Absent THEN [slot EXCEPT !._id = id] ELSE slot
    IN  IF fault THEN StoreThrows(1)
        ELSE IF Duplicates(Slots, doc) THEN StoreThrows(11000)
        ELSE StoreReturns(Slots \cup {doc}, <<doc._id>>)

\* Slots.update({ _id: slot._id }, { $set: slot })
SlotsCollectionUpdate(slot, fault) ==
    LET hit == {d \in Slots : d._id = slot._id}
        set(d) == [k \in DOMAIN d |-> IF slot[k] # Absent THEN slot[k] ELSE d[k]]
    IN  IF fault THEN StoreThrows(1)
        ELSE IF hit = {} THEN StoreReturns(Slots, <<0>>)
        ELSE LET d == CHOOSE x \in hit : TRUE
             IN  IF \E o \in Slots \ {d} : SameKey(o, set(d)) THEN StoreThrows(11000)
                 ELSE StoreReturns((Slots \ {d}) \cup {set(d)}, <<1>>)

\* Slots.remove(slot): the documents that have every field of the slot.
SlotsCollectionRemove(slot, fault) ==
    LET hit == {d \in Slots : \A k \in DOMAIN slot : slot[k] # Absent => d[k] = slot[k]}
    IN  IF fault THEN StoreThrows(1)
        ELSE StoreReturns(Slots \ hit, <<Cardinality(hit)>>)

SlotCall(method, slot, can) ==
    [Idle EXCEPT !.pc = "called", !.method = method, !.projectId = slot.projectId,
                 !.can = can, !.slot = <<slot>>]

StoreErrorOf(r) == IF r.ok THEN "" ELSE IF r.e.code = 11000 THEN "E11000" ELSE "E"

SlotsInsert(c, slot, id, can, fault) ==
    LET f0 == SlotCall("slots.insert", slot, can)
        r == SlotsCollectionInsert(slot, id, fault)
        f == [Logged(f0, "insert") EXCEPT !.storeError = StoreErrorOf(r)]
    IN  /\ frames[c].pc = "idle"
        /\ IF slot._id = Absent THEN id \notin {d._id : d \in Slots} ELSE id = slot._id
        /\ IF checkIfCan(can) # "" THEN Return(c, f0, checkIfCan(can), <<>>) /\ UNCHANGED Slots
           ELSE IF validateSchema(slot) # ""
           THEN Return(c, f0, validateSchema(slot), <<>>) /\ UNCHANGED Slots
           ELSE IF ~r.ok
           THEN Return(c, f, handleError(r.e), <<>>) /\ UNCHANGED Slots
           ELSE Return(c, f, "", r.value) /\ Slots' = r.docs
        /\ UNCHANGED <<Projects, now>>

SlotsUpdate(c, slot, can, fault) ==
    LET f0 == SlotCall("slots.update", slot, can)
        r == SlotsCollectionUpdate(slot, fault)
        f == [Logged(f0, "update") EXCEPT !.storeError = StoreErrorOf(r)]
    IN  /\ frames[c].pc = "idle"
        /\ IF checkIfCan(can) # "" THEN Return(c, f0, checkIfCan(can), <<>>) /\ UNCHANGED Slots
           ELSE IF validateSchema(slot) # ""
           THEN Return(c, f0, validateSchema(slot), <<>>) /\ UNCHANGED Slots
           ELSE IF ~r.ok
           THEN Return(c, f, handleError(r.e), <<>>) /\ UNCHANGED Slots
           ELSE Return(c, f, "", r.value) /\ Slots' = r.docs
        /\ UNCHANGED <<Projects, now>>

\* slots.delete has no try/catch: what the store throws reaches the caller.
SlotsDelete(c, slot, can, fault) ==
    LET f0 == SlotCall("slots.delete", slot, can)
        r == SlotsCollectionRemove(slot, fault)
        f == [Logged(f0, "remove") EXCEPT !.storeError = StoreErrorOf(r)]
    IN  /\ frames[c].pc = "idle"
        /\ IF checkIfCan(can) # "" THEN Return(c, f0, checkIfCan(can), <<>>) /\ UNCHANGED Slots
           ELSE IF validateSchema(slot) # ""
           THEN Return(c, f0, validateSchema(slot), <<>>) /\ UNCHANGED Slots
           ELSE IF ~r.ok
           THEN Return(c, f, "MongoError", <<>>) /\ UNCHANGED Slots
           ELSE Return(c, f, "", r.value) /\ Slots' = r.docs
        /\ UNCHANGED <<Projects, now>>

(***************************************************************************)
(* project.updateTemplate(projectId, key, item)                            *)
(***************************************************************************)
UpdateTemplate(c, projectId, key, item, can, fault) ==
    LET f0 == [Call("project.updateTemplate", projectId, can) EXCEPT
                  !.key = key, !.item = <<item>>]
        formattedItem ==
            [item EXCEPT !.values[1].sequence = formatNewlines(@)]
        ts == Projects[projectId].templates
        i == FirstIndex(ts, key)
        f == Logged(f0, "update")
    IN  /\ frames[c].pc = "idle"
        /\ IF checkIfCan(can) # ""
           THEN Return(c, f0, checkIfCan(can), <<>>) /\ UNCHANGED Projects
           ELSE IF fault
           THEN Return(c, f, "Meteor.Error", <<>>) /\ UNCHANGED Projects
           ELSE IF i = 0
           THEN Return(c, f, "", <<0>>) /\ UNCHANGED Projects
           ELSE /\ SetTemplates(projectId, [ts EXCEPT ![i] = formattedItem])
                /\ Return(c, f, "", <<1>>)
        /\ UNCHANGED <<Slots, now>>

(***************************************************************************)
(* project.deleteTemplate(projectId, key, lang = 'en')                     *)
(***************************************************************************)
DeleteTemplate(c, projectId, key, lang, can, fault) ==
    LET f0 == [Call("project.deleteTemplate", projectId, can) EXCEPT
                  !.key = key, !.lang = lang]
        ts == Projects[projectId].templates
        f == Logged(f0, "update")
    IN  /\ frames[c].pc = "idle"
        /\ IF checkIfCan(can) # ""
           THEN Return(c, f0, checkIfCan(can), <<>>) /\ UNCHANGED Projects
           ELSE IF fault
           THEN Return(c, f, "Meteor.Error", <<>>) /\ UNCHANGED Projects
           ELSE IF FirstIndex(ts, key) = 0
           THEN Return(c, f, "", <<0>>) /\ UNCHANGED Projects
           ELSE /\ SetTemplates(projectId, PullKeys(ts, {key}))
                /\ Return(c, f, "", <<1>>)
        /\ UNCHANGED <<Slots, now>>

(***************************************************************************)
(* project.findTemplate(projectId, key, lang = 'en')                       *)
(***************************************************************************)
\* Projects.findOne with the $elemMatch projection, then the branch taken.
FindTemplateFindOne(c, projectId, key, lang, can, fault) ==
    LET f0 == [Call("project.findTemplate", projectId, can) EXCEPT
                  !.key = key, !.lang = lang]
        f == Logged(f0, "findOne")
        ts == Projects[projectId].templates
        i == FirstIndex(ts, key)
    IN  /\ frames[c].pc = "idle"
        /\ IF checkIfCan(can) # "" THEN Return(c, f0, checkIfCan(can), <<>>)
           ELSE IF fault THEN Return(c, f, "Meteor.Error", <<>>)
           ELSE IF i = 0
           THEN Continue(c, [f EXCEPT !.template =
                                <<[key |-> key, values |-> <<newSeq(key, lang)>>]>>],
                         "findTemplate:pushTemplate")
           ELSE IF ~HasLang(ts[i], lang)
           THEN Continue(c, [f EXCEPT !.template =
                                <<[ts[i] EXCEPT !.values = Append(@, newSeq(key, lang))]>>],
                         "findTemplate:pushValue")
           ELSE Return(c, f, "", <<ts[i]>>)
        /\ UNCHANGED <<Projects, Slots, now>>

\* if (!template): $push: { templates: template }
FindTemplatePushTemplate(c, fault) ==
    LET f == Logged(frames[c], "update")
        ts == Projects[f.projectId].templates
    IN  /\ frames[c].pc = "findTemplate:pushTemplate"
        /\ IF fault
           THEN Return(c, f, "Meteor.Error", <<>>) /\ UNCHANGED Projects
           ELSE /\ Len(ts) < MaxTemplates
                /\ SetTemplates(f.projectId, Append(ts, f.template[1]))
                /\ Return(c, f, "", f.template)
        /\ UNCHANGED <<Slots, now>>

\* the lang is missing: $push: { 'templates.$.values': newSeq }
FindTemplatePushValue(c, fault) ==
    LET f == Logged(frames[c], "update")
        ts == Projects[f.projectId].templates
        i == FirstIndex(ts, f.key)
    IN  /\ frames[c].pc = "findTemplate:pushValue"
        /\ IF fault
           THEN Return(c, f, "Meteor.Error", <<>>) /\ UNCHANGED Projects
           ELSE IF i = 0
           THEN Return(c, f, "", f.template) /\ UNCHANGED Projects
           ELSE /\ Len(ts[i].values) < MaxValues
                /\ SetTemplates(f.projectId,
                       [ts EXCEPT ![i].values = Append(@, newSeq(f.key, f.lang))])
                /\ Return(c, f, "", f.template)
        /\ UNCHANGED <<Slots, now>>

(***************************************************************************)
(* project.insertTemplate(projectId, item)                                 *)
(***************************************************************************)
InsertTemplateFindOne(c, projectId, item, can, fault) ==
    LET f0 == [Call("project.insertTemplate", projectId, can) EXCEPT
                  !.key = item.key, !.item = <<item>>]
        f == Logged(f0, "findOne")
        templates == Projects[projectId].templates
    IN  /\ frames[c].pc = "idle"
        /\ IF checkIfCan(can) # "" THEN Return(c, f0, checkIfCan(can), <<>>)
           ELSE IF fault THEN Return(c, f, "raw", <<>>)
           ELSE IF FirstIndex(templates, item.key) # 0
           THEN Return(c, f, "template-collision", <<>>)
           ELSE Continue(c, f, "insertTemplate:update")
        /\ UNCHANGED <<Projects, Slots, now>>

InsertTemplateUpdate(c, fault) ==
    LET f == Logged(frames[c], "update")
        ts == Projects[f.projectId].templates
    IN  /\ frames[c].pc = "insertTemplate:update"
        /\ IF fault
           THEN Return(c, f, "Meteor.Error", <<>>) /\ UNCHANGED Projects
           ELSE /\ Len(ts) < MaxTemplates
                /\ SetTemplates(f.projectId, Append(ts, f.item[1]))
                /\ Return(c, f, "", <<>>)
        /\ UNCHANGED <<Slots, now>>

(***************************************************************************)
(* templates.import(projectId, templates)                                  *)
(***************************************************************************)
JsonBye ==
    "[{\"key\":\"utter_bye\",\"values\":[{\"lang\":\"fr\",\"sequence\":[{\"content\":\"text: salut\\n\"}]}]}]"
NotJson == "utter_bye"

\* JSON.parse on the texts the model sends; <<>> stands for a SyntaxError's
\* missing value, ParsesAsJson says which it is.
ParsesAsJson(text) == text = JsonBye
JSONparse(text) == IF text = JsonBye THEN <<ItemBye>> ELSE <<>>

ImportArgs ==
    { [type |-> "array", text |-> "", list |-> <<ItemGreet>>],
      [type |-> "array", text |-> "", list |-> <<ItemBye, ItemGreet>>],
      [type |-> "string", text |-> JsonBye, list |-> <<>>],
      [type |-> "string", text |-> NotJson, list |-> <<>>] }

ImportFindOne(c, projectId, templates, can, fault) ==
    LET f0 == [Call("templates.import", projectId, can) EXCEPT
                  !.argType = templates.type, !.text = templates.text]
        newTemplates == IF templates.type = "string"
                        THEN JSONparse(templates.text) ELSE templates.list
        f == [Logged(f0, "findOne") EXCEPT !.newTemplates = newTemplates]
        oldTemplates == Projects[projectId].templates
    IN  /\ frames[c].pc = "idle"
        /\ IF checkIfCan(can) # "" THEN Return(c, f0, checkIfCan(can), <<>>)
           ELSE IF templates.type = "string" /\ ~ParsesAsJson(templates.text)
           THEN Return(c, f0, "raw", <<>>)
           ELSE IF fault THEN Return(c, f, "raw", <<>>)
           ELSE Continue(c, [f EXCEPT !.pullTemplatesKey =
                                    intersectionByKey(oldTemplates, newTemplates)],
                         "import:pull")
        /\ UNCHANGED <<Projects, Slots, now>>

\* $pull: { templates: { key: { $in: pullTemplatesKey } } }: no $set.
ImportPull(c, fault) ==
    LET f == Logged(frames[c], "update")
        ts == Projects[f.projectId].templates
    IN  /\ frames[c].pc = "import:pull"
        /\ IF fault
           THEN Return(c, f, "Meteor.Error", <<>>) /\ UNCHANGED Projects
           ELSE /\ Projects' = [Projects EXCEPT ![f.projectId].templates =
                                   PullKeys(ts, SeqToSet(f.pullTemplatesKey))]
                /\ Continue(c, f, "import:push")
        /\ UNCHANGED <<Slots, now>>

\* $push: { templates: { $each: newTemplates } }, $set: { responsesUpdatedAt }
ImportPush(c, fault) ==
    LET f == Logged(frames[c], "update")
        ts == Projects[f.projectId].templates
    IN  /\ frames[c].pc = "import:push"
        /\ IF fault
           THEN Return(c, f, "Meteor.Error", <<>>) /\ UNCHANGED Projects
           ELSE /\ Len(ts) + Len(f.newTemplates) <= MaxTemplates
                /\ SetTemplates(f.projectId, ts \o f.newTemplates)
                /\ Return(c, f, "", <<>>)
        /\ UNCHANGED <<Slots, now>>

(***************************************************************************)
(* templates.removeByKey(projectId, arg)                                   *)
(***************************************************************************)
RemoveArgs ==
    { [type |-> "string", text |-> "utter_greet", list |-> <<>>],
      [type |-> "array", text |-> "", list |-> <<"utter_bye">>],
      [type |-> "array", text |-> "", list |-> <<"utter_greet", "utter_bye">>],
      [type |-> "array", text |-> "", list |-> <<>>] }

\* The bug of using the first key of a list only.
templateKeysFirst(arg) ==
    IF arg.type = "string" THEN <<arg.text>>
    ELSE IF arg.list = <<>> THEN <<>> ELSE <<Head(arg.list)>>

\* const templateKeys = (typeof arg === 'string') ? [arg] : arg;
templateKeysOf(arg) == IF arg.type = "string" THEN <<arg.text>> ELSE arg.list

RemoveByKey(c, projectId, arg, can, fault) ==
    LET f0 == [Call("templates.removeByKey", projectId, can) EXCEPT
                  !.argType = arg.type, !.text = arg.text, !.keys = arg.list]
        templateKeys == templateKeysOf(arg)
        f == Logged(f0, "update")
        ts == Projects[projectId].templates
    IN  /\ frames[c].pc = "idle"
        /\ IF checkIfCan(can) # ""
           THEN Return(c, f0, checkIfCan(can), <<>>) /\ UNCHANGED Projects
           ELSE IF fault
           THEN Return(c, f, "formatError", <<>>) /\ UNCHANGED Projects
           ELSE /\ SetTemplates(projectId, PullKeys(ts, SeqToSet(templateKeys)))
                /\ Return(c, f, "", <<>>)
        /\ UNCHANGED <<Slots, now>>

(***************************************************************************)
(* The template manager's steps of caller c.                               *)
(***************************************************************************)
TemplateCall(c) ==
    \E projectId \in {"P"}, can \in BOOLEAN :
      \E fault \in IF can THEN BOOLEAN ELSE {FALSE} :
        \/ \E key \in CalledKeys :
              UpdateTemplate(c, projectId, key, ItemGreet, can, fault)
        \/ \E key \in CalledKeys, lang \in Langs :
              DeleteTemplate(c, projectId, key, lang, can, fault)
        \/ \E key \in CalledKeys, lang \in Langs :
              FindTemplateFindOne(c, projectId, key, lang, can, fault)
        \/ \E item \in Items :
              InsertTemplateFindOne(c, projectId, item, can, fault)
        \/ \E templates \in ImportArgs :
              ImportFindOne(c, projectId, templates, can, fault)
        \/ \E arg \in RemoveArgs :
              RemoveByKey(c, projectId, arg, can, fault)

\* The later store calls of the calls in flight.
TemplateStep(c) ==
    \E fault \in BOOLEAN :
        \/ FindTemplatePushTemplate(c, fault)
        \/ FindTemplatePushValue(c, fault)
        \/ InsertTemplateUpdate(c, fault)
        \/ ImportPull(c, fault)
        \/ ImportPush(c, fault)

\* Every caller makes one call at a time; between two store calls of a call
\* the other caller's store calls run.
Next ==
    \/ Tick
    \/ \E c \in Callers : TemplateCall(c) \/ TemplateStep(c)

Spec == Init /\ [][Next]_vars

\* The slot manager's calls; each makes one store call, so the callers' calls
\* run one after the other.
SlotsNext ==
    \E c \in Callers, slot \in SlotInputs, can \in BOOLEAN :
      \E fault \in IF can THEN BOOLEAN ELSE {FALSE} :
        \/ \E id \in SlotIds : SlotsInsert(c, slot, id, can, fault)
        \/ SlotsUpdate(c, slot, can, fault)
        \/ SlotsDelete(c, slot, can, fault)

SlotsSpec == Init /\ [][SlotsNext]_vars

(***************************************************************************)
(* The claims.                                                             *)
(***************************************************************************)
Returned(method) == last.pc = "returned" /\ last.method = method
SlotMethods == {"slots.insert", "slots.update", "slots.delete"}
TemplatesOf(p) == Projects[p].templates

\* C1: in every reachable state no two templates of a project have the same key.
UniqueKeys ==
    \A p \in ProjectIds : \A i, j \in DOMAIN TemplatesOf(p) :
        i # j => TemplatesOf(p)[i].key # TemplatesOf(p)[j].key

\* C2: in every reachable state no template holds two localized values with
\* the same lang.
UniqueLangs ==
    \A p \in ProjectIds : \A n \in DOMAIN TemplatesOf(p) :
        \A i, j \in DOMAIN TemplatesOf(p)[n].values :
            i # j => TemplatesOf(p)[n].values[i].lang # TemplatesOf(p)[n].values[j].lang

\* C3: templates.import replaces by key, store call by store call.  The keys it
\* pulls are the incoming keys the project has when it reads.  Its $pull leaves,
\* unchanged and in their order, the templates with another key; when the keys
\* read are still the project's, no template with an incoming key is left.  Its
\* $push appends the incoming templates, all present afterwards, to the templates
\* left, unchanged; when no template with an incoming key has come in since the
\* $pull, the incoming templates are the only ones with their keys (the old
\* ones are gone) and the templates with other keys are as they were.
ImportReplaces ==
    [][\A c \in Callers :
        LET f == frames[c]
            new == f.newTemplates
            before == Projects[f.projectId].templates
            after == Projects'[f.projectId].templates
            incoming(t) == t.key \in KeysOf(new)
            other(t) == t.key \notin KeysOf(new)
            pulled(t) == t.key \in SeqToSet(f.pullTemplatesKey)
            unpulled(t) == t.key \notin SeqToSet(f.pullTemplatesKey)
        IN  /\ (frames[c].pc = "idle" /\ frames'[c].pc = "import:pull")
               => LET p == frames'[c].projectId
                  IN  SeqToSet(frames'[c].pullTemplatesKey) =
                         KeysOf(Projects[p].templates) \cap KeysOf(frames'[c].newTemplates)
            /\ (f.pc = "import:pull" /\ frames'[c].pc = "import:push")
               => /\ after = SelectSeq(before, unpulled)
                  /\ SelectSeq(after, other) = SelectSeq(before, other)
                  /\ SeqToSet(f.pullTemplatesKey) = KeysOf(before) \cap KeysOf(new)
                        => SelectSeq(after, incoming) = <<>>
            /\ (f.pc = "import:push" /\ frames'[c].pc = "idle" /\ last'.error = "")
               => /\ after = before \o new
                  /\ \A i \in DOMAIN new : new[i] \in SeqToSet(after)
                  /\ SelectSeq(after, other) = SelectSeq(before, other)
                  /\ SelectSeq(before, incoming) = <<>>
                        => SelectSeq(after, incoming) = new]_vars

ImportReplacesWitness ==
    /\ Returned("templates.import")
    /\ last.error = ""
    /\ last.pullTemplatesKey = <<"utter_greet">>
    /\ last.newTemplates = <<ItemGreet>>
    /\ \E i \in DOMAIN TemplatesOf("P") : TemplatesOf("P")[i].key = "utter_bye"
    /\ ItemGreet \in SeqToSet(TemplatesOf("P"))

\* C4: every step that changes a project's templates sets that project's
\* responsesUpdatedAt to the time of the step.
EveryChangeBumps ==
    [][\A p \in ProjectIds :
        Projects'[p].templates # Projects[p].templates
        => Projects'[p].responsesUpdatedAt = now]_vars

\* C5: a slots.insert, slots.update or slots.delete call with a slot that has
\* no type fails with the 400 bad request (the caller lacking the permission
\* fails the permission check before it) without any store call, the Slots
\* collection unchanged.
TypelessSlotRejected ==
    [][(last'.pc = "returned" /\ last'.method \in SlotMethods
            /\ last'.slot[1].type = Absent)
        => /\ last'.error = IF last'.can THEN "400" ELSE "403"
           /\ last'.calls = <<>>
           /\ Slots' = Slots]_vars

TypelessSlotRejectedWitness ==
    /\ Returned("slots.delete")
    /\ last.slot[1].type = Absent
    /\ last.can
    /\ last.error = "400"
    /\ \E d \in Slots : d.name = last.slot[1].name

\* C6: whenever the store throws during slots.insert, slots.update or
\* slots.delete, the caller gets the re-classified error: 400 'Slot already
\* exists' for a duplicate key, the 500 server error otherwise.
StoreFailuresReclassified ==
    (last.pc = "returned" /\ last.method \in SlotMethods /\ last.storeError # "")
    => last.error = IF last.storeError = "E11000"
                    THEN "400:Slot already exists" ELSE "500:Server Error"

\* C7: a slots.insert of a valid slot whose unique key a stored slot already
\* has fails with 400 'Slot already exists' and leaves the Slots collection as
\* it was.
SecondInsertConflicts ==
    [][(/\ last'.pc = "returned" /\ last'.method = "slots.insert"
        /\ last'.can /\ validateSchema(last'.slot[1]) = ""
        /\ last'.storeError # "E"
        /\ \E d \in Slots : SameKey(d, last'.slot[1]))
        => /\ last'.error = "400:Slot already exists"
           /\ Slots' = Slots]_vars

SecondInsertConflictsWitness ==
    /\ Returned("slots.insert")
    /\ last.error = "400:Slot already exists"
    /\ \E d \in Slots : SameKey(d, last.slot[1]) /\ d._id # last.slot[1]._id

\* The YAML dump of { text: key }, spelled out.
DefaultContent(key) ==
    IF key = "utter_greet" THEN "text: utter_greet\n" ELSE "text: utter_bye\n"

\* C8: a project.findTemplate call that found the template of the key without
\* the lang appends, in its write, one localized value for that lang, its
\* content the dump of the key, after the values of the template the project
\* has under the key, and changes nothing else (the template gone since the
\* read, it changes nothing); it returns a template with the lang, and, the
\* template's values at the write being those it read, the lang was missing
\* and the template returned is the project's, with the earlier langs and the
\* new one.
FindTemplateAddsLang ==
    [][\A c \in Callers :
        (frames[c].pc = "findTemplate:pushValue" /\ frames'[c].pc = "idle"
            /\ last'.error = "")
        => LET f == frames[c]
               before == Projects[f.projectId].templates
               after == Projects'[f.projectId].templates
               i == FirstIndex(before, f.key)
               added == [lang |-> f.lang,
                         sequence |-> <<[content |-> DefaultContent(f.key)]>>]
               returned == last'.result[1]
               asRead == /\ i # 0
                         /\ Len(returned.values) = Len(before[i].values) + 1
                         /\ SubSeq(returned.values, 1, Len(before[i].values))
                               = before[i].values
           IN  /\ Len(last'.result) = 1
               /\ f.lang \in LangsOf(returned)
               /\ i = 0 => Projects' = Projects
               /\ i # 0 => /\ Len(after) = Len(before)
                           /\ \A j \in DOMAIN before : j # i => after[j] = before[j]
                           /\ after[i].key = f.key
                           /\ after[i].values = Append(before[i].values, added)
               /\ asRead => /\ ~HasLang(before[i], f.lang)
                            /\ returned = after[i]
                            /\ LangsOf(returned) = LangsOf(before[i]) \cup {f.lang}
               /\ \A q \in ProjectIds \ {f.projectId} : Projects'[q] = Projects[q]]_vars

FindTemplateAddsLangWitness ==
    /\ Returned("project.findTemplate")
    /\ last.error = ""
    /\ last.key = "utter_greet" /\ last.lang = "fr"
    /\ last.calls = <<"findOne", "update">>
    /\ LangsOf(last.result[1]) = {"en", "fr"}
    /\ Len(TemplatesOf("P")) = 2
    /\ last.result[1] \in SeqToSet(TemplatesOf("P"))

\* C9: a templates.removeByKey call that returns has made one store call, after
\* which the project holds, unchanged and in their order, exactly its earlier
\* templates whose key is not among the keys given (one key or a list), and
\* every other project is as it was.
RemoveByKeyExact ==
    [][(last'.pc = "returned" /\ last'.method = "templates.removeByKey"
            /\ last'.error = "")
        => LET p == last'.projectId
               given == IF last'.argType = "string" THEN {last'.text}
                        ELSE SeqToSet(last'.keys)
               kept(t) == t.key \notin given
           IN  /\ KeysOf(Projects'[p].templates) \cap given = {}
               /\ Projects'[p].templates = SelectSeq(Projects[p].templates, kept)
               /\ \A q \in ProjectIds \ {p} : Projects'[q] = Projects[q]
               /\ last'.calls = <<"update">>]_vars

RemoveByKeyExactWitness ==
    /\ Returned("templates.removeByKey")
    /\ last.error = ""
    /\ last.argType = "array" /\ last.keys = <<"utter_bye">>
    /\ TemplatesOf("P") # <<>>
    /\ KeysOf(TemplatesOf("P")) = {"utter_greet"}
    /\ Projects["P"].responsesUpdatedAt = 1

\* C10: when project.findTemplate(projectId, key, lang) has just returned the
\* template the project has under the key, the same call made next, by any
\* caller, returns at once with the same template: it makes no store write and
\* the project's templates stay as they are.
SameFind(f) ==
    /\ f.method = "project.findTemplate"
    /\ f.projectId = last.projectId /\ f.key = last.key /\ f.lang = last.lang

Created ==
    /\ Returned("project.findTemplate") /\ last.error = ""
    /\ LET ts == TemplatesOf(last.projectId)
       IN  FirstIndex(ts, last.key) # 0
           /\ last.result = <<ts[FirstIndex(ts, last.key)]>>

FindTemplateIdempotent ==
    [][(/\ Created
        /\ \/ frames' = frames /\ last'.pc = "returned" /\ SameFind(last')
           \/ \E c \in Callers :
                 frames[c].pc = "idle" /\ frames'[c].pc # "idle" /\ SameFind(frames'[c]))
        => /\ last'.pc = "returned"
           /\ frames' = frames
           /\ Projects' = Projects
           /\ \A i \in DOMAIN last'.calls : last'.calls[i] # "update"
           /\ last'.error = "" => last'.result = last.result]_vars

FindTemplateIdempotentWitness ==
    /\ Created
    /\ last.calls = <<"findOne">>
    /\ last.lang = "fr"
    /\ LangsOf(last.result[1]) = {"en", "fr"}
    /\ last.result[1] \in SeqToSet(TemplatesOf("P"))
====
